---- MODULE Spec2Model ----
(***************************************************************************)
(* AI Prompt Hub (app.py): sessions, the users / prompts / votes tables    *)
(* and the script runs that read and write them.                           *)
(*                                                                         *)
(* Every user interaction starts one run of the script for that session.   *)
(* A run that makes one store call is one action.  A run that reads a      *)
(* table and later writes it is split at the store calls, because other    *)
(* sessions' store calls can fall between them.                            *)
(*                                                                         *)
(* Text is a sequence of one-character strings where the code looks        *)
(* inside it (tags); opaque text (title, prompt_text, names) is a string.  *)
(* Integer ids of the users table and the integer 0 of a fresh session are *)
(* written as the strings "1", "2", "0"; a Slack id is "U1".               *)
(*                                                                         *)
(* Spec is every run that writes a table or a session.  ModerationSpec,    *)
(* SubmissionSpec and VotingSpec are its parts, each small enough for TLC  *)
(* with the bounds raised.  RatingSpec and FilterSpec are the renders of   *)
(* View Prompts, which write nothing, over the tables they may find.       *)
(***************************************************************************)
EXTENDS Integers, Sequences, FiniteSets, TLC

----------------------------------------------------------------------------
(* Bounds *)

\* rows the prompts table may hold
MaxPrompts == 1
\* longest custom-tags text typed into the submission form
MaxCustomLen == 2

\* members whose votes the votes table may hold when RatingSpec starts
MaxVoters == 4
\* tags one prompt may carry when FilterSpec starts
MaxTags == 2

\* browser sessions, each with its own st.session_state
Sessions == {"s1", "s2"}

----------------------------------------------------------------------------
(* Text helpers *)

Ord ==
    " " :> 32 @@ "(" :> 40 @@ ")" :> 41 @@ "," :> 44 @@ "-" :> 45 @@
    "0" :> 48 @@ "1" :> 49 @@ "2" :> 50 @@ "3" :> 51 @@ "A" :> 65 @@
    "C" :> 67 @@ "D" :> 68 @@ "E" :> 69 @@ "F" :> 70 @@ "G" :> 71 @@
    "H" :> 72 @@ "I" :> 73 @@ "L" :> 76 @@ "M" :> 77 @@ "N" :> 78 @@
    "P" :> 80 @@ "Q" :> 81 @@ "R" :> 82 @@ "S" :> 83 @@ "T" :> 84 @@ "U" :> 85 @@
    "a" :> 97 @@ "b" :> 98 @@ "c" :> 99 @@ "d" :> 100 @@ "e" :> 101 @@
    "g" :> 103 @@ "h" :> 104 @@ "i" :> 105 @@ "k" :> 107 @@ "l" :> 108 @@
    "m" :> 109 @@ "n" :> 110 @@ "o" :> 111 @@ "p" :> 112 @@ "q" :> 113 @@
    "r" :> 114 @@
    "s" :> 115 @@ "t" :> 116 @@ "u" :> 117 @@ "w" :> 119 @@ "y" :> 121

\* str.__lt__: lexicographic order on code points
RECURSIVE StrLess(_, _)
StrLess(a, b) ==
    IF b = <<>> THEN FALSE
    ELSE IF a = <<>> THEN TRUE
    ELSE IF Ord[Head(a)] # Ord[Head(b)] THEN Ord[Head(a)] < Ord[Head(b)]
    ELSE StrLess(Tail(a), Tail(b))

RECURSIVE LStrip(_)
LStrip(s) == IF s # <<>> /\ Head(s) = " " THEN LStrip(Tail(s)) ELSE s

RECURSIVE RStrip(_)
RStrip(s) ==
    IF s # <<>> /\ s[Len(s)] = " " THEN RStrip(SubSeq(s, 1, Len(s) - 1)) ELSE s

\* str.strip()
Strip(s) == RStrip(LStrip(s))

\* str.split(','): the pieces between commas, empty pieces included
RECURSIVE Split(_, _)
Split(s, cur) ==
    IF s = <<>> THEN <<cur>>
    ELSE IF Head(s) = "," THEN <<cur>> \o Split(Tail(s), <<>>)
    ELSE Split(Tail(s), Append(cur, Head(s)))

\* sorted(list(S)) for a set S of texts
RECURSIVE Sorted(_)
Sorted(S) ==
    IF S = {} THEN <<>>
    ELSE LET m == CHOOSE x \in S : \A y \in S \ {x} : StrLess(x, y)
         IN  <<m>> \o Sorted(S \ {m})

\* ", ".join(parts)
RECURSIVE Join(_)
Join(parts) ==
    IF parts = <<>> THEN <<>>
    ELSE IF Len(parts) = 1 THEN parts[1]
    ELSE parts[1] \o <<",", " ">> \o Join(Tail(parts))

Range(f) == {f[i] : i \in DOMAIN f}

\* str.lower() on one character
lower ==
    "A" :> "a" @@ "C" :> "c" @@ "D" :> "d" @@ "E" :> "e" @@ "F" :> "f" @@
    "G" :> "g" @@ "H" :> "h" @@ "I" :> "i" @@ "L" :> "l" @@ "M" :> "m" @@
    "N" :> "n" @@ "P" :> "p" @@ "Q" :> "q" @@ "R" :> "r" @@ "S" :> "s" @@
    "T" :> "t" @@ "U" :> "u"

Lower(s) ==
    [i \in 1..Len(s) |-> IF s[i] \in DOMAIN lower THEN lower[s[i]] ELSE s[i]]

\* pat in text
IsSubstring(pat, text) ==
    \E k \in 0..(Len(text) - Len(pat)) : SubSeq(text, k + 1, k + Len(pat)) = pat

\* Of the characters of Ord only ( and ) are operators of a regular
\* expression: they open and close a group.  re.compile(pat) raises re.error
\* unless every ) closes an open ( and no ( is left open.
RECURSIVE re_compiles(_, _)
re_compiles(pat, open) ==
    IF pat = <<>> THEN open = 0
    ELSE IF Head(pat) = "(" THEN re_compiles(Tail(pat), open + 1)
    ELSE IF Head(pat) = ")" THEN open > 0 /\ re_compiles(Tail(pat), open - 1)
    ELSE re_compiles(Tail(pat), open)

\* the characters a pattern of literals and groups has to find, in order and
\* adjacent: its literals; the parentheses themselves match no character
re_literals(pat) == SelectSeq(pat, LAMBDA c : c \notin {"(", ")"})

\* re.search(pat, text, flags=re.IGNORECASE) is not None, for a pat that
\* compiles
re_search(pat, text) == IsSubstring(Lower(re_literals(pat)), Lower(text))

----------------------------------------------------------------------------
(* Program data *)

\* hashlib.sha256(password.encode()).hexdigest()
hash_password(password) ==
    CASE password = "pw1" ->
           "c592df4a86933b92addc9842402ddf198c638ea9be58916ee6e3734e1e3152f8"
      [] password = "pw2" ->
           "93915a0a4bf8f634cb1856494dd4304472ad46b9827f541f76b6761c49cc55b0"
      [] password = "" ->
           "e3b0c44298fc1c149afbf4c8996fb92427ae41e4649b934ca495991b7852b855"

\* the pre-provisioned users table; no code path writes it
users ==
    << [id |-> "1", username |-> "root",
        password_hash |-> hash_password("pw1"), role |-> "admin"],
       [id |-> "2", username |-> "bob",
        password_hash |-> hash_password("pw2"), role |-> "user"] >>

tag_options ==
    [c \in {"Preclinical Students", "Clinical Students", "Residents",
            "Miscellaneous"} |->
       CASE c = "Preclinical Students" ->
              { <<"A","n","a","t","o","m","y"," ","H","e","l","p","e","r">>,
                <<"C","o","n","c","e","p","t"," ","I","n","s","t","r","u","c",
                  "t","i","o","n">>,
                <<"U","S","M","L","E"," ","S","t","e","p","1">>,
                <<"M","n","e","m","o","n","i","c"," ","G","e","n","e","r","a",
                  "t","o","r">>,
                <<"C","a","s","e"," ","S","i","m","u","l","a","t","o","r"," ",
                  "(","P","r","e","-","C","l","i","n","i","c","a","l",")">> }
         [] c = "Clinical Students" ->
              { <<"C","a","s","e"," ","S","i","m","u","l","a","t","o","r"," ",
                  "(","C","l","i","n","i","c","a","l",")">>,
                <<"C","l","i","n","i","c","a","l"," ","T","r","a","n","s","l",
                  "a","t","i","o","n">>,
                <<"U","S","M","L","E"," ","S","t","e","p","2">>,
                <<"N","o","t","e"," ","T","a","k","e","r">>,
                <<"S","c","r","i","b","i","n","g">>,
                <<"C","l","e","r","k","s","h","i","p"," ","P","r","e","p">> }
         [] c = "Residents" ->
              { <<"C","a","s","e"," ","S","i","m","u","l","a","t","o","r"," ",
                  "(","R","e","s","i","d","e","n","t",")">>,
                <<"U","S","M","L","E"," ","S","t","e","p","3">>,
                <<"F","e","l","l","o","w","s","h","i","p"," ","C","o","a","c",
                  "h">>,
                <<"G","u","i","d","e","l","i","n","e"," ","C","h","e","c","k">>,
                <<"I","C","D","-","1","0"," ","H","e","l","p","e","r">> }
         [] c = "Miscellaneous" -> {} ]

\* the five star columns, enumerate(star_cols, 1)
star_cols == 1..5

SlackUserDefault == "Slack User"
SlackLoginFailed == "Slack login failed"
InvalidAdmin == "Invalid admin credentials or not an admin."
SubmitSuccess == "Your prompt has been submitted for admin approval. Thank you!"
SubmitWarning == "Please fill out all fields, including at least one tag."

----------------------------------------------------------------------------
(* Inputs *)

\* dict.get(key, default)
Get(d, key, default) == IF key \in DOMAIN d THEN d[key] ELSE default

\* token_data of oauth.v2.access: whatever the provider answers
Profiles ==
    { [id |-> "U1", name |-> "ann"],
      [id |-> "U1"],
      [id |-> "U1", name |-> "ann", role |-> "admin", is_admin |-> "true"] }

TokenResponses ==
    {[ok |-> TRUE, authed_user |-> p] : p \in Profiles}
      \cup {[ok |-> FALSE, error |-> "invalid_code"], [error |-> "fatal"]}

LoginUsernames == {"root", "bob", "zed"}
LoginPasswords == {"pw1", "pw2"}

----------------------------------------------------------------------------
(* State *)

VARIABLES
    logged_in,      \* st.session_state.logged_in, per session
    username,       \* st.session_state.username
    user_id,        \* st.session_state.user_id
    role,           \* st.session_state.role
    message,        \* the st.error / st.warning / st.success of the last run
    pc,             \* where the session's current script run stands
    row,            \* row['id'] of the widget the current run is about
    user_vote,      \* the local user_vote of the current run
    prompts,        \* table prompts; the id of a row is its index
    votes,          \* table votes, a set of rows
    form,           \* the submission form as SubmissionSpec starts with it
    view            \* what the last render of View Prompts computed

session == <<logged_in, username, user_id, role>>
locals == <<pc, row, user_vote>>
vars == <<logged_in, username, user_id, role, message, pc, row, user_vote,
          prompts, votes, form, view>>

\* the submission form as the page first shows it
BlankForm ==
    [title |-> "", prompt_text |-> "", category |-> "Preclinical Students",
     selected_tags |-> {}, custom_tags_input |-> <<>>]

\* nothing rendered yet
BlankView ==
    [selected_tags |-> {}, error |-> FALSE, filtered_df |-> {},
     avg_rating |-> [p \in {} |-> [num |-> 0, den |-> 1]]]

Idle(s) == pc[s] = "idle"

Init ==
    /\ logged_in = [s \in Sessions |-> FALSE]
    /\ username = [s \in Sessions |-> ""]
    /\ user_id = [s \in Sessions |-> "0"]
    /\ role = [s \in Sessions |-> ""]
    /\ message = [s \in Sessions |-> ""]
    /\ pc = [s \in Sessions |-> "idle"]
    /\ row = [s \in Sessions |-> 0]
    /\ user_vote = [s \in Sessions |-> 0]
    /\ prompts = <<>>
    /\ votes = {}
    /\ form = BlankForm
    /\ view = BlankView

----------------------------------------------------------------------------
(* Sidebar: Slack login, logout, admin login *)

\* faulty variant: the role taken from the provider's profile
SlackRole_FromProfile(user_identity) == Get(user_identity, "role", "user")
\* the role a Slack login gives, whatever the profile says
SlackRole(user_identity) == "user"

\* the run of a page whose URL carries ?code=..., with the provider's answer
slack_oauth(s, token_data) ==
    /\ Idle(s)
    /\ IF ~logged_in[s]
       THEN IF Get(token_data, "ok", FALSE)
            THEN LET user_identity == Get(token_data, "authed_user", <<>>)
                 IN  /\ logged_in' = [logged_in EXCEPT ![s] = TRUE]
                     /\ username' = [username EXCEPT ![s] =
                            Get(user_identity, "name", SlackUserDefault)]
                     /\ user_id' = [user_id EXCEPT ![s] =
                            Get(user_identity, "id", "None")]
                     /\ role' = [role EXCEPT ![s] = SlackRole(user_identity)]
                     /\ message' = [message EXCEPT ![s] = ""]
            ELSE /\ message' = [message EXCEPT ![s] = SlackLoginFailed]
                 /\ UNCHANGED session
       ELSE UNCHANGED <<session, message>>
    /\ UNCHANGED <<locals, prompts, votes, form, view>>

\* faulty variant: Logout leaves the role in place
logout_KeepRole(s) ==
    /\ Idle(s)
    /\ logged_in[s]
    /\ logged_in' = [logged_in EXCEPT ![s] = FALSE]
    /\ username' = [username EXCEPT ![s] = ""]
    /\ user_id' = [user_id EXCEPT ![s] = ""]
    /\ message' = [message EXCEPT ![s] = ""]
    /\ UNCHANGED <<role, locals, prompts, votes, form, view>>

\* the Logout button of the sidebar
logout(s) ==
    /\ Idle(s)
    /\ logged_in[s]
    /\ logged_in' = [logged_in EXCEPT ![s] = FALSE]
    /\ username' = [username EXCEPT ![s] = ""]
    /\ user_id' = [user_id EXCEPT ![s] = ""]
    /\ role' = [role EXCEPT ![s] = ""]
    /\ message' = [message EXCEPT ![s] = ""]
    /\ UNCHANGED <<locals, prompts, votes, form, view>>

\* faulty variant: the query without .eq("role", "admin")
SelectAdmin_NoRoleFilter(name, password_hash) ==
    SelectSeq(users, LAMBDA u : /\ u.username = name
                                /\ u.password_hash = password_hash)
\* table("users").select("*").eq(username).eq(password_hash).eq("role","admin")
SelectAdmin(name, password_hash) ==
    SelectSeq(users, LAMBDA u : /\ u.username = name
                                /\ u.password_hash = password_hash
                                /\ u.role = "admin")

admin_login_form(s, name, password) ==
    /\ Idle(s)
    /\ ~logged_in[s]
    /\ LET user_data == SelectAdmin(name, hash_password(password))
       IN  IF Len(user_data) > 0
           THEN LET user == user_data[1]
                IN  /\ logged_in' = [logged_in EXCEPT ![s] = TRUE]
                    /\ username' = [username EXCEPT ![s] = user.username]
                    /\ user_id' = [user_id EXCEPT ![s] = user.id]
                    /\ role' = [role EXCEPT ![s] = user.role]
                    /\ message' = [message EXCEPT ![s] = ""]
           ELSE /\ message' = [message EXCEPT ![s] = InvalidAdmin]
                /\ UNCHANGED session
    /\ UNCHANGED <<locals, prompts, votes, form, view>>

----------------------------------------------------------------------------
(* Submit a Prompt *)

\* faulty variant: the comprehension without "if tag.strip()"
custom_tags_KeepBlank(custom_tags_input) ==
    {Strip(t) : t \in Range(Split(custom_tags_input, <<>>))}
\* [tag.strip() for tag in custom_tags_input.split(',') if tag.strip()]
custom_tags(custom_tags_input) ==
    {Strip(t) : t \in {u \in Range(Split(custom_tags_input, <<>>)) :
                          Strip(u) # <<>>}}

\* sorted(list(set(selected_tags + custom_tags)))
all_tags(selected_tags, custom_tags_input) ==
    Sorted(selected_tags \cup custom_tags(custom_tags_input))

\* if title and prompt_text and category and all_tags
FormComplete(f) ==
    /\ f.title # ""
    /\ f.prompt_text # ""
    /\ f.category # ""
    /\ all_tags(f.selected_tags, f.custom_tags_input) # <<>>

\* faulty variant: the row inserted as already approved
NewPrompt_Approved(s, f) ==
    [title |-> f.title,
     prompt_text |-> f.prompt_text,
     category |-> f.category,
     tags |-> Join(all_tags(f.selected_tags, f.custom_tags_input)),
     submitted_by_id |-> user_id[s],
     username |-> username[s],
     status |-> "approved"]
\* the row handed to table("prompts").insert
NewPrompt(s, f) ==
    [title |-> f.title,
     prompt_text |-> f.prompt_text,
     category |-> f.category,
     tags |-> Join(all_tags(f.selected_tags, f.custom_tags_input)),
     submitted_by_id |-> user_id[s],
     username |-> username[s],
     status |-> "pending"]

prompt_submission_form(s, f) ==
    /\ Idle(s)
    /\ logged_in[s]
    /\ Len(prompts) < MaxPrompts
    /\ IF FormComplete(f)
       THEN /\ prompts' = Append(prompts, NewPrompt(s, f))
            /\ message' = [message EXCEPT ![s] = SubmitSuccess]
       ELSE /\ message' = [message EXCEPT ![s] = SubmitWarning]
            /\ UNCHANGED prompts
    /\ UNCHANGED <<session, locals, votes, form, view>>

----------------------------------------------------------------------------
(* Store reads *)

\* rpc get_approved_prompts_with_username: ids of the rows with status approved
get_approved_prompts_with_username ==
    {p \in DOMAIN prompts : prompts[p].status = "approved"}

\* rpc get_pending_prompts_with_username: ids of the rows with status pending
get_pending_prompts_with_username ==
    {p \in DOMAIN prompts : prompts[p].status = "pending"}

\* faulty variant: the user_id filter is missing
user_vote_data_AnyUser(p, u) == {v \in votes : v.prompt_id = p}
\* table("votes").select("rating").eq("prompt_id", p).eq("user_id", u)
user_vote_data(p, u) == {v \in votes : v.prompt_id = p /\ v.user_id = u}

\* faulty variant: a plain insert
upsert_InsertOnly(rec) == votes \cup {rec}
\* faulty variant: a row that exists is kept as it is
upsert_IgnoreDuplicates(rec) ==
    IF \E v \in votes : v.prompt_id = rec.prompt_id /\ v.user_id = rec.user_id
    THEN votes
    ELSE votes \cup {rec}
\* faulty variant: the conflict key is prompt_id alone
upsert_OnPromptId(rec) ==
    {v \in votes : v.prompt_id # rec.prompt_id} \cup {rec}
\* table("votes").upsert(rec): insert, or overwrite the row with rec's key
\* (prompt_id, user_id), the uniqueness constraint of the votes table
upsert(rec) ==
    {v \in votes : ~(v.prompt_id = rec.prompt_id /\ v.user_id = rec.user_id)}
      \cup {rec}

\* faulty variant: the id filter is missing
update_status_AllRows(id, status) ==
    [p \in DOMAIN prompts |-> [prompts[p] EXCEPT !.status = status]]
\* table("prompts").update({"status": status}).eq("id", id)
update_status(id, status) ==
    [p \in DOMAIN prompts |->
        IF p = id THEN [prompts[p] EXCEPT !.status = status] ELSE prompts[p]]

----------------------------------------------------------------------------
(* View Prompts: ratings, tag options and filters *)

\* sum(r['rating'] for r in rating_data.data)
RECURSIVE sum(_)
sum(data) ==
    IF data = {} THEN 0
    ELSE LET r == CHOOSE r \in data : TRUE IN r.rating + sum(data \ {r})

RECURSIVE gcd(_, _)
gcd(a, b) == IF b = 0 THEN a ELSE gcd(b, a % b)

\* a / b of two integers, b > 0: the quotient as a fraction in lowest terms
\* (no sum of ratings over their count is beyond the precision of a float)
TrueDiv(a, b) == [num |-> a \div gcd(a, b), den |-> b \div gcd(a, b)]

\* faulty variant: rows of rating 0 are left out of the average
calculate_avg_rating_SkipZero(prompt_id) ==
    LET rating_data == {v \in votes : v.prompt_id = prompt_id /\ v.rating # 0}
        count == Cardinality(rating_data)
    IN  IF count > 0 THEN TrueDiv(sum(rating_data), count) ELSE TrueDiv(0, 1)
\* select("rating", count="exact").eq("prompt_id", prompt_id);
\* sum / count if count > 0, else 0
calculate_avg_rating(prompt_id) ==
    LET rating_data == {v \in votes : v.prompt_id = prompt_id}
        count == Cardinality(rating_data)
    IN  IF count > 0 THEN TrueDiv(sum(rating_data), count) ELSE TrueDiv(0, 1)

\* all_tags / sorted_tags: the options of the tag multiselect, every piece
\* between commas of every approved prompt's tags, stripped
sorted_tags ==
    UNION { {Strip(t) : t \in Range(Split(prompts[p].tags, <<>>))} :
              p \in get_approved_prompts_with_username }

\* Series.str.contains(tag, case=False, na=False): regex=True is the default
str_contains(text, tag) == re_search(tag, text)

\* for tag in selected_tags: filtered_df = filtered_df[... str.contains(tag)]
filtered_df(selected_tags) ==
    {p \in get_approved_prompts_with_username :
        \A tag \in selected_tags : str_contains(prompts[p].tags, tag)}

\* one render of View Prompts with selected_tags chosen in the multiselect
\* and an empty search box; viewing needs no login
view_prompts(selected_tags) ==
    /\ selected_tags \subseteq sorted_tags
    /\ view' =
         [selected_tags |-> selected_tags,
          avg_rating |-> [p \in get_approved_prompts_with_username |->
                              calculate_avg_rating(p)],
          error |-> \E tag \in selected_tags : ~re_compiles(tag, 0),
          filtered_df |-> IF \A tag \in selected_tags : re_compiles(tag, 0)
                          THEN filtered_df(selected_tags)
                          ELSE {}]
    /\ UNCHANGED <<session, message, locals, prompts, votes, form>>

----------------------------------------------------------------------------
(* View Prompts: the star buttons *)

\* faulty variant: the stars are rendered for a session that is not logged in
tab_view_NoLogin(s, p) ==
    /\ Idle(s)
    /\ p \in get_approved_prompts_with_username
    /\ pc' = [pc EXCEPT ![s] = "tab_view"]
    /\ row' = [row EXCEPT ![s] = p]
    /\ message' = [message EXCEPT ![s] = ""]
    /\ UNCHANGED <<session, user_vote, prompts, votes, form, view>>

\* a click on a star of prompt p starts a run; the run loads the approved
\* prompts and renders p's stars only if p is among them
tab_view(s, p) ==
    /\ Idle(s)
    /\ logged_in[s]
    /\ p \in get_approved_prompts_with_username
    /\ pc' = [pc EXCEPT ![s] = "tab_view"]
    /\ row' = [row EXCEPT ![s] = p]
    /\ message' = [message EXCEPT ![s] = ""]
    /\ UNCHANGED <<session, user_vote, prompts, votes, form, view>>

\* user_vote = user_vote_data[0]['rating'] if user_vote_data else 0
read_user_vote(s) ==
    /\ pc[s] = "tab_view"
    /\ LET data == user_vote_data(row[s], user_id[s])
       IN  IF data # {}
           THEN \E v \in data : user_vote' = [user_vote EXCEPT ![s] = v.rating]
           ELSE user_vote' = [user_vote EXCEPT ![s] = 0]
    /\ pc' = [pc EXCEPT ![s] = "star"]
    /\ UNCHANGED <<session, message, row, prompts, votes, form, view>>

\* faulty variant: no retraction on the same star
new_rating_NoToggle(i, current) == i
\* faulty variant: the star is added to the vote read
new_rating_Accumulate(i, current) == current + i
\* new_rating = i; if new_rating == user_vote: new_rating = 0
new_rating(i, current) == IF i = current THEN 0 ELSE i

\* the clicked star i: compute new_rating and upsert
star_button(s, i) ==
    /\ pc[s] = "star"
    /\ votes' = upsert([prompt_id |-> row[s],
                        user_id |-> user_id[s],
                        rating |-> new_rating(i, user_vote[s])])
    /\ pc' = [pc EXCEPT ![s] = "idle"]
    /\ row' = [row EXCEPT ![s] = 0]
    /\ user_vote' = [user_vote EXCEPT ![s] = 0]
    /\ UNCHANGED <<session, message, prompts, form, view>>

----------------------------------------------------------------------------
(* Admin Panel *)

\* faulty variant: any logged-in session may moderate
may_moderate_AnyLogin(s) == logged_in[s]
\* if st.session_state.role == 'admin'
may_moderate(s) == role[s] = "admin"

\* a click on Approve / Reject of prompt p starts a run; the run loads the
\* pending queue and renders p's buttons only if p is in it
tab_admin(s, p) ==
    /\ Idle(s)
    /\ may_moderate(s)
    /\ p \in get_pending_prompts_with_username
    /\ pc' = [pc EXCEPT ![s] = "tab_admin"]
    /\ row' = [row EXCEPT ![s] = p]
    /\ message' = [message EXCEPT ![s] = ""]
    /\ UNCHANGED <<session, user_vote, prompts, votes, form, view>>

\* faulty variant: Approve writes the status of Reject
approve_status_Rejected == "rejected"
\* update({"status": "approved"})
approve_status == "approved"

\* faulty variant: Reject sends the prompt back to the queue
reject_status_Pending == "pending"
\* update({"status": "rejected"})
reject_status == "rejected"

approve(s) ==
    /\ pc[s] = "tab_admin"
    /\ prompts' = update_status(row[s], approve_status)
    /\ pc' = [pc EXCEPT ![s] = "idle"]
    /\ row' = [row EXCEPT ![s] = 0]
    /\ UNCHANGED <<session, message, user_vote, votes, form, view>>

reject(s) ==
    /\ pc[s] = "tab_admin"
    /\ prompts' = update_status(row[s], reject_status)
    /\ pc' = [pc EXCEPT ![s] = "idle"]
    /\ row' = [row EXCEPT ![s] = 0]
    /\ UNCHANGED <<session, message, user_vote, votes, form, view>>

----------------------------------------------------------------------------
(* Specifications *)

\* what the submission form is filled with in the full system
Forms ==
    { [title |-> "t", prompt_text |-> "x", category |-> "Clinical Students",
       selected_tags |-> {<<"S","c","r","i","b","i","n","g">>},
       custom_tags_input |-> <<" ", "a", ",">>],
      [title |-> "", prompt_text |-> "x", category |-> "Clinical Students",
       selected_tags |-> {<<"S","c","r","i","b","i","n","g">>},
       custom_tags_input |-> <<>>],
      [title |-> "t", prompt_text |-> "x", category |-> "Miscellaneous",
       selected_tags |-> {},
       custom_tags_input |-> <<" ", ",">>] }

\* what the submission form can be filled with: either text empty or not,
\* each category with none or all of its tags selected, any custom-tags text
\* of letters, commas and blanks up to MaxCustomLen
CustomInputs ==
    UNION {[1..n -> {"a", ",", " "}] : n \in 0..MaxCustomLen}

CategoryChoices ==
    UNION {{<<c, {}>>, <<c, tag_options[c]>>} : c \in DOMAIN tag_options}

AllForms ==
    { [title |-> t, prompt_text |-> x, category |-> cs[1],
       selected_tags |-> cs[2], custom_tags_input |-> cu] :
         t \in {"", "t"}, x \in {"", "x"},
         cs \in CategoryChoices, cu \in CustomInputs }

PromptIds == 1..MaxPrompts

Sidebar ==
    \E s \in Sessions :
        \/ \E token_data \in TokenResponses : slack_oauth(s, token_data)
        \/ logout(s)
        \/ \E name \in LoginUsernames, password \in LoginPasswords :
               admin_login_form(s, name, password)

Submit == \E s \in Sessions, f \in Forms : prompt_submission_form(s, f)

Vote ==
    \E s \in Sessions :
        \/ \E p \in PromptIds : tab_view(s, p)
        \/ read_user_vote(s)
        \/ \E i \in star_cols : star_button(s, i)

Moderate ==
    \E s \in Sessions :
        \/ \E p \in PromptIds : tab_admin(s, p)
        \/ approve(s)
        \/ reject(s)

\* every run that writes a table or a session
Next == Sidebar \/ Submit \/ Vote \/ Moderate

Spec == Init /\ [][Next]_vars

\* submission and moderation: every action that writes the prompts table or
\* a session; the star buttons write neither
ModerationNext == Sidebar \/ Submit \/ Moderate

ModerationSpec == Init /\ [][ModerationNext]_vars

\* the submission form filled with any of AllForms, submitted by a Slack
\* member in one session and by the admin in the other: states Spec reaches
\* by the two logins
InitSubmission ==
    /\ logged_in = [s \in Sessions |-> TRUE]
    /\ username = [s \in Sessions |-> IF s = "s1" THEN "ann" ELSE "root"]
    /\ user_id = [s \in Sessions |-> IF s = "s1" THEN "U1" ELSE "1"]
    /\ role = [s \in Sessions |-> IF s = "s1" THEN "user" ELSE "admin"]
    /\ message = [s \in Sessions |-> ""]
    /\ pc = [s \in Sessions |-> "idle"]
    /\ row = [s \in Sessions |-> 0]
    /\ user_vote = [s \in Sessions |-> 0]
    /\ prompts = <<>>
    /\ votes = {}
    /\ form \in AllForms
    /\ view = BlankView

SubmissionNext == \E s \in Sessions : prompt_submission_form(s, form)

SubmissionSpec == InitSubmission /\ [][SubmissionNext]_vars

\* voting on a library that holds one approved prompt, the state Spec is in
\* once a member's submission has been approved
InitVoting ==
    /\ logged_in = [s \in Sessions |-> FALSE]
    /\ username = [s \in Sessions |-> ""]
    /\ user_id = [s \in Sessions |-> "0"]
    /\ role = [s \in Sessions |-> ""]
    /\ message = [s \in Sessions |-> ""]
    /\ pc = [s \in Sessions |-> "idle"]
    /\ row = [s \in Sessions |-> 0]
    /\ user_vote = [s \in Sessions |-> 0]
    /\ prompts = << [title |-> "t", prompt_text |-> "x",
                     category |-> "Clinical Students",
                     tags |-> <<"S","c","r","i","b","i","n","g",",",
                                " ","a">>,
                     submitted_by_id |-> "U1", username |-> "ann",
                     status |-> "approved"] >>
    /\ votes = {}
    /\ form = BlankForm
    /\ view = BlankView

VotingNext == Sidebar \/ Vote

VotingSpec == InitVoting /\ [][VotingNext]_vars

\* Slack ids of members
Members == <<"U1", "U2", "U3", "U4", "U5", "U6">>

Voters == {Members[i] : i \in 1..MaxVoters}

\* every votes table the star buttons of the Voters can leave on prompt 1:
\* at most one row per voter, its rating a star or the 0 of a retraction
VoteTables ==
    UNION { { {[prompt_id |-> 1, user_id |-> u, rating |-> f[u]] : u \in V} :
                f \in [V -> {0} \cup star_cols] } : V \in SUBSET Voters }

\* the library of InitVoting after members have voted
InitRating ==
    /\ logged_in = [s \in Sessions |-> FALSE]
    /\ username = [s \in Sessions |-> ""]
    /\ user_id = [s \in Sessions |-> "0"]
    /\ role = [s \in Sessions |-> ""]
    /\ message = [s \in Sessions |-> ""]
    /\ pc = [s \in Sessions |-> "idle"]
    /\ row = [s \in Sessions |-> 0]
    /\ user_vote = [s \in Sessions |-> 0]
    /\ prompts = << [title |-> "t", prompt_text |-> "x",
                     category |-> "Clinical Students",
                     tags |-> <<"S","c","r","i","b","i","n","g",",",
                                " ","a">>,
                     submitted_by_id |-> "U1", username |-> "ann",
                     status |-> "approved"] >>
    /\ votes \in VoteTables
    /\ form = BlankForm
    /\ view = BlankView

ViewNext == \E selected_tags \in SUBSET sorted_tags : view_prompts(selected_tags)

\* renders of View Prompts over any votes table
RatingSpec == InitRating /\ [][ViewNext]_vars

\* tags of approved prompts: custom tags and one predefined tag
FilterTags ==
    { <<"S","Q","L">>,
      <<"S","q","l">>,
      <<"P","o","s","t","g","r","e","S","Q","L">>,
      <<"C","a","s","e"," ","S","i","m","u","l","a","t","o","r"," ",
        "(","C","l","i","n","i","c","a","l",")">>,
      <<"(","a">> }

TagChoices ==
    {T \in SUBSET FilterTags : Cardinality(T) >= 1 /\ Cardinality(T) <= MaxTags}

\* an approved prompt whose submitter chose the tags T
TaggedPrompt(T) ==
    [title |-> "t", prompt_text |-> "x", category |-> "Clinical Students",
     tags |-> Join(Sorted(T)),
     submitted_by_id |-> "U1", username |-> "ann", status |-> "approved"]

\* a library of two approved prompts, each with any of TagChoices
InitFilter ==
    /\ logged_in = [s \in Sessions |-> FALSE]
    /\ username = [s \in Sessions |-> ""]
    /\ user_id = [s \in Sessions |-> "0"]
    /\ role = [s \in Sessions |-> ""]
    /\ message = [s \in Sessions |-> ""]
    /\ pc = [s \in Sessions |-> "idle"]
    /\ row = [s \in Sessions |-> 0]
    /\ user_vote = [s \in Sessions |-> 0]
    /\ \E T1 \in TagChoices, T2 \in TagChoices :
           prompts = <<TaggedPrompt(T1), TaggedPrompt(T2)>>
    /\ votes = {}
    /\ form = BlankForm
    /\ view = BlankView

\* renders of View Prompts over any two tagged prompts
FilterSpec == InitFilter /\ [][ViewNext]_vars

----------------------------------------------------------------------------
(* Moderation status *)

Statuses == {"pending", "approved", "rejected"}

StatusChanged(p) == prompts'[p].status # prompts[p].status

\* C1: every prompt's status is pending, approved or rejected in every
\* reachable state, and a row a submit has just inserted has status pending.
C1_StatusPendingOnSubmit ==
    /\ [](\A p \in DOMAIN prompts : prompts[p].status \in Statuses)
    /\ [][\A p \in (DOMAIN prompts') \ (DOMAIN prompts) :
              prompts'[p].status = "pending"]_vars

C1_Witness ==
    \E p \in DOMAIN prompts, s \in Sessions :
        /\ prompts[p].status = "pending"
        /\ message[s] = SubmitSuccess

\* C2: a status changes only from pending: once approved or rejected no
\* step changes it, also when two admin runs each loaded the queue before
\* the other wrote.
C2_OnlyFromPending ==
    [][\A p \in DOMAIN prompts :
           StatusChanged(p) => prompts[p].status = "pending"]_vars

\* C3: once a prompt is approved or rejected its status never goes back to
\* pending, so the pending queue never shows it again.
C3_NeverBackToPending ==
    [][\A p \in DOMAIN prompts :
           prompts[p].status \in {"approved", "rejected"}
             => /\ p \in DOMAIN prompts'
                /\ prompts'[p].status # "pending"]_vars

\* a decided prompt that another admin run, which loaded it from the queue
\* earlier, is about to write again
C3_Witness ==
    \E s \in Sessions :
        /\ pc[s] = "tab_admin"
        /\ prompts[row[s]].status \in {"approved", "rejected"}

\* C4: a status changes only in the step of a session whose role is admin;
\* a logged-out session or one with role user never has an approve or reject
\* update under way.
C4_OnlyAdminChangesStatus ==
    /\ [](\A s \in Sessions : pc[s] = "tab_admin" => role[s] = "admin")
    /\ [][\A p \in DOMAIN prompts :
              StatusChanged(p)
                => \E s \in Sessions : /\ role[s] = "admin"
                                       /\ pc[s] = "tab_admin"
                                       /\ row[s] = p
                                       /\ pc'[s] = "idle"]_vars

C4_Witness ==
    \E p \in DOMAIN prompts, s \in Sessions :
        /\ prompts[p].status = "approved"
        /\ role[s] = "user"

\* C8: approve of a pending prompt puts it in the approved list and takes it
\* out of the pending list; reject of a pending prompt leaves it in neither.
C8_ListsAfterDecision ==
    [][\A s \in Sessions :
           /\ (approve(s) /\ prompts[row[s]].status = "pending")
                => /\ row[s] \in get_approved_prompts_with_username'
                   /\ row[s] \notin get_pending_prompts_with_username'
           /\ (reject(s) /\ prompts[row[s]].status = "pending")
                => /\ row[s] \notin get_approved_prompts_with_username'
                   /\ row[s] \notin get_pending_prompts_with_username']_vars

C8_Witness ==
    /\ get_approved_prompts_with_username # {}
    /\ get_pending_prompts_with_username = {}
    /\ \A s \in Sessions : Idle(s)

----------------------------------------------------------------------------
(* Login *)

\* C5: a session the Slack login set up has role user, whatever profile the
\* provider returned: the login step sets role user, and every session whose
\* user_id is a Slack id has role user.
C5_SlackLoginIsUser ==
    /\ [](\A s \in Sessions :
              user_id[s] \in {Get(p, "id", "None") : p \in Profiles}
                => role[s] = "user")
    /\ [][\A s \in Sessions, token_data \in TokenResponses :
              slack_oauth(s, token_data) /\ logged_in'[s] => role'[s] = "user"]_vars

C5_Witness ==
    \E s \in Sessions :
        logged_in[s] /\ user_id[s] = "U1" /\ username[s] = SlackUserDefault

\* a users row with this username, the hash of this password and role admin
AdminRowMatches(name, password) ==
    \E i \in DOMAIN users : /\ users[i].username = name
                            /\ users[i].password_hash = hash_password(password)
                            /\ users[i].role = "admin"

\* C6: the admin login form logs the session in with role admin exactly when
\* a users row matches username, password hash and role admin; otherwise it
\* shows the one error message and leaves the session logged out, unchanged.
C6_AdminLogin ==
    [][\A s \in Sessions, name \in LoginUsernames, password \in LoginPasswords :
           admin_login_form(s, name, password)
             => IF AdminRowMatches(name, password)
                THEN logged_in'[s] /\ role'[s] = "admin"
                ELSE /\ UNCHANGED session
                     /\ ~logged_in'[s]
                     /\ message'[s] = InvalidAdmin]_vars

C6_Witness ==
    \E s, t \in Sessions :
        /\ role[s] = "admin"
        /\ message[t] = InvalidAdmin

\* C19: in every reachable state a session's role is admin or user exactly
\* when it is logged in and empty exactly when it is not; Logout leaves the
\* session logged out with an empty role; a session becomes logged in only
\* from the logged-out state, so while it stays logged in no step, an OAuth
\* code included, changes its username, user_id or role.
C19_RoleFollowsLogin ==
    /\ [](\A s \in Sessions :
              /\ logged_in[s] <=> role[s] \in {"admin", "user"}
              /\ ~logged_in[s] <=> role[s] = "")
    /\ [][\A s \in Sessions :
              /\ logout(s) => (~logged_in'[s] /\ role'[s] = "")
              /\ (logged_in[s] /\ logged_in'[s])
                   => <<username[s], user_id[s], role[s]>>' =
                      <<username[s], user_id[s], role[s]>>]_vars

\* after a Logout one session is logged out with its identity cleared while
\* the other is logged in as admin
C19_Witness ==
    \E s, t \in Sessions :
        /\ ~logged_in[s] /\ user_id[s] = "" /\ role[s] = ""
        /\ logged_in[t] /\ role[t] = "admin"

----------------------------------------------------------------------------
(* Submission *)

\* the form names a tag: one is selected, or the custom text holds a
\* character that is neither a comma nor a blank
NamesATag(f) ==
    \/ f.selected_tags # {}
    \/ \E i \in DOMAIN f.custom_tags_input :
           f.custom_tags_input[i] \notin {",", " "}

\* C7: submit leaves the prompts table unchanged when title, prompt text or
\* category is empty or no tag is selected or typed, and otherwise inserts
\* exactly one row.
C7_SubmitValidation ==
    [][\A s \in Sessions :
           prompt_submission_form(s, form)
             => IF /\ form.title # ""
                   /\ form.prompt_text # ""
                   /\ form.category # ""
                   /\ NamesATag(form)
                THEN /\ Len(prompts') = Len(prompts) + 1
                     /\ SubSeq(prompts', 1, Len(prompts)) = prompts
                ELSE prompts' = prompts]_vars

\* a form complete but for its tags, whose custom text is only commas and
\* blanks, was refused
C7_Witness ==
    \E s \in Sessions :
        /\ message[s] = SubmitWarning
        /\ form.title # "" /\ form.prompt_text # ""
        /\ form.selected_tags = {}
        /\ Len(form.custom_tags_input) = MaxCustomLen
        /\ prompts = <<>>

----------------------------------------------------------------------------
(* Votes *)

\* C9: the votes table holds at most one row per (prompt_id, user_id).
C9_OneVotePerPair ==
    \A v, w \in votes :
        (v.prompt_id = w.prompt_id /\ v.user_id = w.user_id) => v = w

\* a stored vote while two sessions of that user are both about to write
C9_Witness ==
    \E v \in votes :
        \A s \in Sessions :
            /\ pc[s] = "star"
            /\ user_id[s] = v.user_id
            /\ row[s] = v.prompt_id

\* the rating stored for (p, u), 0 when there is no row
StoredRating(p, u) ==
    IF \E v \in votes : v.prompt_id = p /\ v.user_id = u
    THEN (CHOOSE v \in votes : v.prompt_id = p /\ v.user_id = u).rating
    ELSE 0

\* C10: a star click i whose run read the rating that is still stored leaves
\* exactly one row for (p, u), with rating i, or 0 when i is the stored
\* rating; so the same star twice in a row leaves one row with rating 0.
C10_ToggleRating ==
    [][\A s \in Sessions, i \in star_cols :
           (star_button(s, i) /\ user_vote[s] = StoredRating(row[s], user_id[s]))
             => {v \in votes' : v.prompt_id = row[s] /\ v.user_id = user_id[s]}
                  = {[prompt_id |-> row[s], user_id |-> user_id[s],
                      rating |-> IF i = StoredRating(row[s], user_id[s])
                                 THEN 0 ELSE i]}]_vars

C10_Witness ==
    \E v \in votes : v.rating = 0

----------------------------------------------------------------------------
(* Votes: racing runs, frame, ratings, the vote read *)

IsRow(v, p, u) == v.prompt_id = p /\ v.user_id = u

\* C12: a star button's upsert leaves in the row of its prompt and user the
\* rating computed from the vote its own run read (0 when the clicked star is
\* that vote, else the star), whatever another run of the same user has
\* written since; so of two interleaved runs the one that writes last decides
\* the row, and no stale write is refused.
C12_LastWriteWins ==
    [][\A s \in Sessions, i \in star_cols :
           star_button(s, i)
             => {v.rating : v \in {w \in votes' : IsRow(w, row[s], user_id[s])}}
                  = {IF i = user_vote[s] THEN 0 ELSE i}]_vars

\* a run that has read its vote is about to write, and a run of the same user
\* in the other session has written a different rating since
C12_Witness ==
    \E s \in Sessions, t \in Sessions :
        /\ s # t
        /\ pc[s] = "star"
        /\ pc[t] = "idle"
        /\ logged_in[t]
        /\ user_id[t] = user_id[s]
        /\ user_vote[s] # 0
        /\ StoredRating(row[s], user_id[s]) \notin {0, user_vote[s]}

\* C13: a star button's upsert changes no prompt and no vote row other than
\* the one of its own prompt and user; so it never changes the row a run of a
\* different user has read and is about to overwrite, and the votes of
\* different users come out the same in whatever order their runs interleave.
C13_VoteFrame ==
    [][\A s \in Sessions, i \in star_cols :
           star_button(s, i)
             => /\ prompts' = prompts
                /\ {v \in votes' : ~IsRow(v, row[s], user_id[s])}
                     = {v \in votes : ~IsRow(v, row[s], user_id[s])}
                /\ \A t \in Sessions :
                       (pc[t] = "star" /\ user_id[t] # user_id[s])
                         => {v \in votes' : IsRow(v, row[t], user_id[t])}
                              = {v \in votes : IsRow(v, row[t], user_id[t])}]_vars

\* two users have each voted on one prompt, with different stars
C13_Witness ==
    \E v \in votes, w \in votes :
        /\ v.prompt_id = w.prompt_id
        /\ v.user_id # w.user_id
        /\ v.rating > 0 /\ w.rating > 0 /\ v.rating # w.rating

\* C16: every stored vote rating is one of 0, 1, 2, 3, 4, 5.
C16_RatingRange ==
    \A v \in votes : v.rating \in 0..5

\* a five-star vote is stored
C16_Witness ==
    \E v \in votes : v.rating = 5

\* C17: the vote a run reads for its prompt and user is the rating of the
\* stored row of that prompt and user, and 0 when there is no such row.
C17_CurrentUserVote ==
    [][\A s \in Sessions :
           read_user_vote(s)
             => user_vote'[s] = StoredRating(row[s], user_id[s])]_vars

\* a run has read its own vote while another user's row on the prompt holds
\* a different rating
C17_Witness ==
    \E s \in Sessions, w \in votes :
        /\ pc[s] = "star"
        /\ user_vote[s] > 0
        /\ w.prompt_id = row[s] /\ w.user_id # user_id[s]
        /\ w.rating # user_vote[s]

----------------------------------------------------------------------------
(* Prompt rows *)

\* ids the prompts table holds or may come to hold
KnownIds == 1..(MaxPrompts + 1)

----------------------------------------------------------------------------
(* Writes need a login *)

\* the step is a run of session s
ActsIn(s) ==
    <<logged_in[s], username[s], user_id[s], role[s], message[s], pc[s]>>' #
    <<logged_in[s], username[s], user_id[s], role[s], message[s], pc[s]>>

\* C15: a run of a session that is not logged in changes neither table;
\* every insert of a prompt and every upsert of a vote is the step of a
\* session that is logged in, the inserted prompt carries that session's
\* user_id and username, and the upserted vote carries its user_id.
C15_WritesNeedLogin ==
    [][/\ \A s \in Sessions :
              (ActsIn(s) /\ ~logged_in[s])
                => (prompts' = prompts /\ votes' = votes)
       /\ Len(prompts') > Len(prompts)
            => \E s \in Sessions, f \in Forms :
                   /\ prompt_submission_form(s, f)
                   /\ logged_in[s]
                   /\ prompts'[Len(prompts')].submitted_by_id = user_id[s]
                   /\ prompts'[Len(prompts')].username = username[s]
       /\ votes' # votes
            => \E s \in Sessions, i \in star_cols :
                   /\ star_button(s, i)
                   /\ logged_in[s]
                   /\ \A v \in votes' \ votes : v.user_id = user_id[s]]_vars

\* one session has submitted a prompt and voted, the other is logged out
C15_Witness ==
    \E s, t \in Sessions, p \in DOMAIN prompts, v \in votes :
        /\ logged_in[s] /\ ~logged_in[t]
        /\ prompts[p].submitted_by_id = user_id[s]
        /\ prompts[p].username = username[s]
        /\ v.user_id = user_id[s]
        /\ v.prompt_id = p

----------------------------------------------------------------------------
(* Votes and moderation *)

\* C20: whenever a star button upserts a vote, the prompt it votes on has
\* status approved at that moment, however the run is interleaved with the
\* approve and reject runs of admins.
C20_VoteOnApproved ==
    [][\A s \in Sessions, i \in star_cols :
           star_button(s, i) => prompts[row[s]].status = "approved"]_vars

----------------------------------------------------------------------------
(* Rating average *)

RowsOf(p) == {v \in votes : v.prompt_id = p}

\* the ratings of p's rows added up star by star
StarTotal(p) ==
    LET N(r) == Cardinality({v \in RowsOf(p) : v.rating = r})
    IN  N(1) + 2 * N(2) + 3 * N(3) + 4 * N(4) + 5 * N(5)

\* the rows of p are exactly four, of ratings 3, 5, 0 and 4
VotedThreeFiveZeroFour(p) ==
    /\ Cardinality(RowsOf(p)) = 4
    /\ {v.rating : v \in RowsOf(p)} = {0, 3, 4, 5}

\* C11: the average rating a render shows for a prompt is the sum of the
\* ratings of all its vote rows, rows of rating 0 included, divided by the
\* number of those rows, and 0 when it has no row; rows rated 3, 5, 0 and 4
\* give 3; the average is never below 0 nor above 5.
C11_AverageRating ==
    \A p \in DOMAIN view.avg_rating :
        LET a == view.avg_rating[p]
            n == Cardinality(RowsOf(p))
        IN  /\ a.den > 0
            /\ n = 0 => a.num = 0
            /\ n > 0 => a.num * n = StarTotal(p) * a.den
            /\ VotedThreeFiveZeroFour(p) => a.num = 3 * a.den
            /\ 0 <= a.num /\ a.num <= 5 * a.den

C11_Witness ==
    \E p \in DOMAIN view.avg_rating :
        /\ VotedThreeFiveZeroFour(p)
        /\ view.avg_rating[p] = [num |-> 3, den |-> 1]

----------------------------------------------------------------------------
(* Tag filter *)

\* C18: a render that completes shows a prompt under the tag filter exactly
\* when every selected tag occurs (in any letter case) as a substring of the
\* prompt's comma-joined tags; so a filter by a tag the prompt carries shows
\* that prompt, and a filter by SQL shows a prompt tagged PostgreSQL.
C18_TagFilter ==
    (view # BlankView /\ ~view.error) =>
           view.filtered_df =
             {p \in get_approved_prompts_with_username :
                \A tag \in view.selected_tags :
                    IsSubstring(Lower(tag), Lower(prompts[p].tags))}

============================================================================
